---- MODULE Spec2Model ----
(***************************************************************************)
(* Model of the Proxmox upstream client (proxmox_mcp/proxmox_client.py).   *)
(*                                                                         *)
(* The client is one shared object used by coroutines of one asyncio event *)
(* loop.  A coroutine runs without interruption until it awaits upstream   *)
(* I/O; `running` names the coroutine that holds the loop (0 = the loop is *)
(* free and any suspended coroutine whose I/O has completed may resume).   *)
(* Every action below is one stretch of code of one coroutine between two  *)
(* suspension points, or a part of such a stretch.                         *)
(***************************************************************************)
EXTENDS Integers, Sequences, FiniteSets, TLC

VARIABLES
    settings,      \* the configuration values read by the client
    client,        \* ProxmoxClient._client: 0 = None, n > 0 = the n-th transport
    is_closed,     \* the transports whose is_closed is true
    opened,        \* number of httpx.AsyncClient objects constructed so far
    auth_ticket,   \* ProxmoxClient._auth_ticket: 0 = None, n = ticket of login n
    csrf_token,    \* ProxmoxClient._csrf_token: 0 = None, n = token of login n
    logins,        \* number of login exchanges (POST /access/ticket) sent
    running,       \* the coroutine holding the event loop, 0 = none
    ops,           \* number of client operations started
    closeCalled,   \* close() has been called at least once
    loginSucceeded,\* some login exchange has succeeded
    task           \* per caller: its operation, position and locals

vars == <<settings, client, is_closed, opened, auth_ticket, csrf_token,
          logins, running, ops, closeCalled, loginSucceeded, task>>

(***************************************************************************)
(* Bounds                                                                  *)
(***************************************************************************)
\* operations started by the single caller of Spec
MaxOps == 4

\* operations started by the concurrent callers of SpecConc
MaxConcOps == 3
MaxLiveOps == 2

\* concurrent callers sharing the client
NumCallers == 2

\* tool invocations of one behaviour
MaxToolOps == 1

\* login exchanges of one behaviour of the tools
MaxToolLogins == 2

Procs == 1..NumCallers

(***************************************************************************)
(* Configuration                                                           *)
(***************************************************************************)
None == "None"

Truthy(v) == v # None /\ v # ""

Settings(id, secret, user, pw) ==
    [proxmox_api_token_id |-> id, proxmox_api_token_secret |-> secret,
     proxmox_username |-> user, proxmox_password |-> pw]

\* the credential combinations the settings can hold: a static token alone
\* or next to a username and password, a username and password alone, an
\* incomplete token, an incomplete username/password pair, nothing
Configs ==
    {Settings("root@pam!mcp", "secret", None, None),
     Settings("root@pam!mcp", "secret", "root", "pw"),
     Settings(None, None, "root", "pw"),
     Settings("root@pam!mcp", "", "root", "pw"),
     Settings(None, None, "root", None),
     Settings(None, None, None, None)}

\* the token used only when no username is configured
UseApiTokenUnlessUsername(s) ==
    /\ Truthy(s.proxmox_api_token_id) /\ Truthy(s.proxmox_api_token_secret)
    /\ ~Truthy(s.proxmox_username)

UseApiToken(s) ==
    Truthy(s.proxmox_api_token_id) /\ Truthy(s.proxmox_api_token_secret)

MissingCredentials(s) ==
    ~Truthy(s.proxmox_username) \/ ~Truthy(s.proxmox_password)

(***************************************************************************)
(* Exceptions                                                              *)
(***************************************************************************)
\* class ProxmoxAuthError(ProxmoxClientError); the httpx errors and
\* RuntimeError are not client errors.
IsProxmoxClientError(t) == t \in {"ProxmoxClientError", "ProxmoxAuthError"}

Exc(t, d) == [type |-> t, detail |-> d, null |-> TRUE, items |-> <<>>]

Ok(d) == [type |-> "ok", detail |-> "", null |-> d.null, items |-> d.items]

NoRet == [type |-> "none", detail |-> "", null |-> TRUE, items |-> <<>>]

(***************************************************************************)
(* Upstream                                                                *)
(***************************************************************************)
\* node records of GET /nodes; a record need not carry every resource key
NodeA == [node |-> "pve1", maxmem |-> 100, mem |-> 50, maxdisk |-> 8,
          disk |-> 2, maxcpu |-> 4]

NodeB == [node |-> "pve2", maxmem |-> 0, mem |-> 0]

NodeC == [node |-> "pve2", maxmem |-> 3, mem |-> 1, maxdisk |-> 3,
          disk |-> 2, maxcpu |-> 2]

NodeLists == {<<NodeA>>, <<NodeA, NodeB>>, <<NodeB>>, <<NodeA, NodeC>>}

\* guest records of GET /nodes/{node}/qemu; a name is a sequence of text
\* parts, and a record need not carry every key
QemuOf(n) == IF n = "pve1"
             THEN [null |-> FALSE,
                   items |-> <<[vmid |-> 100, type |-> "upstream",
                                name |-> <<"web">>, status |-> "running",
                                cpus |-> 2, maxmem |-> 2048, maxdisk |-> 10,
                                uptime |-> 5],
                               [vmid |-> 101]>>]
             ELSE [null |-> FALSE,
                   items |-> <<[vmid |-> 200, type |-> "upstream",
                                name |-> <<"db">>, maxcpu |-> 4]>>]

\* guest records of GET /nodes/{node}/lxc
LxcOf(n) == IF n = "pve1"
            THEN [null |-> TRUE, items |-> <<>>]
            ELSE [null |-> FALSE,
                  items |-> <<[vmid |-> 300, type |-> "upstream",
                               name |-> <<"ct">>, maxmem |-> 512]>>]

\* strings whose characters the code inspects are sequences of characters
Str(chars) == [t |-> "str", s |-> chars, n |-> 0]

Num(n) == [t |-> "int", s |-> <<>>, n |-> n]

K_net0 == <<"n", "e", "t", "0">>

K_scsi0 == <<"s", "c", "s", "i", "0">>

K_scsihw == <<"s", "c", "s", "i", "h", "w">>

K_mp0 == <<"m", "p", "0">>

K_cores == <<"c", "o", "r", "e", "s">>

K_memory == <<"m", "e", "m", "o", "r", "y">>

K_unused0 == <<"u", "n", "u", "s", "e", "d", "0">>

\* "virtio=AA:BB"
V_nic == Str(<<"v", "i", "r", "t", "i", "o", "=", "A", "A", ":", "B", "B">>)

\* "local:100/d.qcow2"
V_disk == Str(<<"l", "o", "c", "a", "l", ":", "1", "0", "0", "/", "d", ".",
                "q", "c", "o", "w", "2">>)

\* "Volume1"
V_volume == Str(<<"V", "o", "l", "u", "m", "e", "1">>)

\* "virtio-scsi-pci"
V_plain == Str(<<"v", "i", "r", "t", "i", "o", "-", "s", "c", "s", "i", "-",
                 "p", "c", "i">>)

V_empty == Str(<<>>)

ConfigKeys == {K_net0, K_scsi0, K_scsihw, K_mp0, K_cores, K_memory, K_unused0}

ConfigValues == {V_nic, V_disk, V_volume, V_plain, V_empty, Num(2)}

\* flat configuration maps of GET .../config, as ordered key/value pairs
ConfigMaps ==
    {<<>>}
    \cup {<<<<k, v>>>> : k \in ConfigKeys, v \in ConfigValues}
    \cup {<<<<K_net0, V_nic>>, <<K_scsi0, V_disk>>, <<K_cores, Num(2)>>>>,
          <<<<K_net0, V_nic>>, <<K_scsi0, V_disk>>, <<K_cores, Num(2)>>,
            <<K_mp0, V_empty>>>>,
          <<<<K_scsihw, V_plain>>, <<K_mp0, V_volume>>, <<K_net0, V_empty>>>>}

SnapshotNames == {"current", "backup1", "backup2"}

MaxSnapshots == 3

MaxSamples == 2

\* sample lists of GET .../rrddata
SampleLists ==
    UNION {[1..n -> {[time |-> 1, mem |-> 5], [time |-> 2]}] : n \in 0..MaxSamples}

\* snapshot lists of GET .../snapshot
SnapshotLists ==
    UNION {[1..n -> {[name |-> x] : x \in SnapshotNames}] : n \in 0..MaxSnapshots}

\* the payloads upstream can put in the "data" member of a 2xx response
Payloads(path) ==
    IF path = <<"nodes">> THEN {[null |-> FALSE, items |-> l] : l \in NodeLists}
    ELSE IF Len(path) = 3 /\ path[3] = "qemu" THEN {QemuOf(path[2])}
    ELSE IF Len(path) = 3 /\ path[3] = "lxc" THEN {LxcOf(path[2])}
    ELSE IF Len(path) = 5 /\ path[5] = "config"
    THEN {[null |-> FALSE, items |-> m] : m \in ConfigMaps}
    ELSE IF Len(path) = 5 /\ path[5] = "snapshot"
    THEN {[null |-> FALSE, items |-> l] : l \in SnapshotLists}
         \cup {[null |-> TRUE, items |-> <<>>]}
    ELSE IF Len(path) = 5 /\ path[5] = "rrddata"
    THEN {[null |-> FALSE, items |-> l] : l \in SampleLists}
         \cup {[null |-> TRUE, items |-> <<>>]}
    ELSE IF Len(path) = 6 /\ path[5] = "status"
    THEN {[null |-> FALSE, items |-> <<[status |-> "running"]>>]}
    ELSE {[null |-> FALSE, items |-> <<"payload">>]}

\* status 0: no response (timeout or another transport failure)
Responses(path) ==
    {[status |-> 200, data |-> d] : d \in Payloads(path)}
    \cup {[status |-> s, data |-> [null |-> TRUE, items |-> <<>>]] : s \in {0, 401, 500}}

LoginOutcomes == {"ok", "http_error", "timeout", "no_data", "no_csrf"}

(***************************************************************************)
(* Pure helpers of the client                                              *)
(***************************************************************************)
EmptyDict == [k \in {} |-> 0]

\* the liveness test inverted
IsLiveInverted(c) == c # 0 /\ c \in is_closed

IsLive(c) == c # 0 /\ c \notin is_closed

\* the cookie without the anti-forgery header
HeadersForNoCsrf(s, ticket, csrf) ==
    IF UseApiToken(s)
    THEN "Authorization" :> <<"PVEAPIToken=", s.proxmox_api_token_id, "=",
                              s.proxmox_api_token_secret>>
    ELSE IF ticket # 0
         THEN "Cookie" :> <<"PVEAuthCookie=", ticket>>
         ELSE EmptyDict

HeadersFor(s, ticket, csrf) ==
    IF UseApiToken(s)
    THEN "Authorization" :> <<"PVEAPIToken=", s.proxmox_api_token_id, "=",
                              s.proxmox_api_token_secret>>
    ELSE IF ticket # 0
         THEN ("Cookie" :> <<"PVEAuthCookie=", ticket>>)
              @@ (IF csrf # 0 THEN "CSRFPreventionToken" :> <<csrf>>
                  ELSE EmptyDict)
         ELSE EmptyDict

GetHeaders == HeadersFor(settings, auth_ticket, csrf_token)

\* retrying on every error status instead of 401 only
NeedsReauthAnyStatus(status) == status >= 400

NeedsReauth(status) == status = 401

RequestOf(r, hdrs) ==
    [method |-> r.method, path |-> r.path, params |-> r.params,
     headers |-> hdrs]

\* self._client.post("/access/ticket", data={username, password})
LoginRequest == [method |-> "POST", path |-> <<"access", "ticket">>]

NoRequest == [method |-> "", path |-> <<>>]

(***************************************************************************)
(* Values returned by the tools                                            *)
(***************************************************************************)
NoToolResult ==
    [kind |-> "none", shape |-> "", error |-> "", cause |-> NoRet,
     val |-> <<>>]

\* return <value>
ToolValue(v) ==
    [kind |-> "value", shape |-> "", error |-> "", cause |-> NoRet, val |-> v]

\* return {"error": f"<msg>: {e}"}; cause is the exception e of the text
ToolError(msg, e) ==
    [kind |-> "error", shape |-> "dict", error |-> msg, cause |-> e,
     val |-> <<>>]

\* return [{"error": f"<msg>: {e}"}]
ToolErrorList(msg, e) ==
    [kind |-> "error", shape |-> "list", error |-> msg, cause |-> e,
     val |-> <<>>]

\* the exception leaves the tool function
ToolRaised(e) ==
    [kind |-> "raise", shape |-> "", error |-> "", cause |-> e, val |-> <<>>]

(***************************************************************************)
(* Per-caller records                                                      *)
(***************************************************************************)
IdleTask ==
    [op |-> "none", pc |-> "idle", stage |-> "",
     method |-> "", path |-> <<>>, params |-> None,
     ctx |-> "", loginId |-> 0, loginReq |-> NoRequest, lclient |-> 0,
     headers |-> EmptyDict,
     entry |-> 0, foundLive |-> FALSE, openedHere |-> FALSE,
     connAuth |-> FALSE, connOK |-> FALSE, calls |-> 0,
     reauths |-> 0, reauthOK |-> FALSE, first |-> -1, sent |-> <<>>,
     ret |-> NoRet,
     nodes |-> <<>>, idx |-> 0, acc |-> <<>>, fetched |-> <<>>,
     gets |-> <<>>, sends |-> 0, exchanges |-> 0, res |-> NoRet,
     tool |-> "none", tstage |-> "", vmid |-> 0, node |-> None,
     timeframe |-> "", all_vms |-> <<>>,
     config |-> NoRet, status |-> NoRet, vmExc |-> NoRet,
     tcalls |-> <<>>, touts |-> <<>>, tres |-> NoToolResult]

\* entry of _request(method, path, **kwargs)
BeginRequest(r, method, path) ==
    [r EXCEPT !.pc = "get_client", !.method = method, !.path = path,
              !.params = None, !.ctx = "", !.loginId = 0,
              !.loginReq = NoRequest, !.lclient = 0,
              !.headers = EmptyDict, !.entry = 0, !.foundLive = FALSE,
              !.openedHere = FALSE, !.connAuth = FALSE, !.connOK = FALSE,
              !.calls = 0, !.reauths = 0, !.exchanges = 0,
              !.reauthOK = FALSE, !.first = -1, !.sent = <<>>,
              !.ret = NoRet]

GetUsingPost(r, path) == BeginRequest(r, "POST", path)

\* get(path) == _request("GET", path)
Get(r, path) == BeginRequest(r, "GET", path)

SetTask(p, r) == task' = [task EXCEPT ![p] = r]

Init ==
    /\ settings \in Configs
    /\ client = 0
    /\ is_closed = {}
    /\ opened = 0
    /\ auth_ticket = 0
    /\ csrf_token = 0
    /\ logins = 0
    /\ running = 0
    /\ ops = 0
    /\ closeCalled = FALSE
    /\ loginSucceeded = FALSE
    /\ task = [p \in Procs |-> IdleTask]

(***************************************************************************)
(* Operations: a caller starts get(path), get_all_vms(),                   *)
(* get_all_containers() or close()                                         *)
(***************************************************************************)
StartGet(p, max) ==
    /\ running = 0 /\ task[p].pc = "idle" /\ ops < max
    /\ running' = p /\ ops' = ops + 1
    /\ SetTask(p, Get([IdleTask EXCEPT !.op = "get"], <<"cluster", "status">>))
    /\ UNCHANGED <<settings, client, is_closed, opened, auth_ticket,
                   csrf_token, logins, closeCalled, loginSucceeded>>

\* get_all_vms / get_all_containers: nodes = await self.get_nodes()
StartGetAll(p, kind, max) ==
    /\ running = 0 /\ task[p].pc = "idle" /\ ops < max
    /\ kind \in {"vms", "cts"}
    /\ running' = p /\ ops' = ops + 1
    /\ SetTask(p, Get([IdleTask EXCEPT !.op = kind, !.stage = "nodes",
                                       !.gets = <<<<"nodes">>>>],
                      <<"nodes">>))
    /\ UNCHANGED <<settings, client, is_closed, opened, auth_ticket,
                   csrf_token, logins, closeCalled, loginSucceeded>>

StartClose(p, max) ==
    /\ running = 0 /\ task[p].pc = "idle" /\ ops < max
    /\ running' = p /\ ops' = ops + 1
    /\ closeCalled' = TRUE
    /\ SetTask(p, [IdleTask EXCEPT !.op = "close", !.pc = "close"])
    /\ UNCHANGED <<settings, client, is_closed, opened, auth_ticket,
                   csrf_token, logins, loginSucceeded>>

(***************************************************************************)
(* _get_client                                                             *)
(***************************************************************************)
GetClient(p) ==
    /\ running = p /\ task[p].pc = "get_client"
    /\ IF IsLive(client)
       THEN /\ SetTask(p, [task[p] EXCEPT !.entry = client,
                                          !.foundLive = TRUE,
                                          !.pc = "first_send"])
            /\ UNCHANGED <<client, opened>>
       ELSE /\ opened' = opened + 1
            /\ client' = opened + 1
            /\ SetTask(p, [task[p] EXCEPT !.entry = client,
                                          !.openedHere = TRUE,
                                          !.connAuth = TRUE,
                                          !.ctx = "connect",
                                          !.pc = "authenticate"])
    /\ UNCHANGED <<settings, is_closed, auth_ticket, csrf_token, logins,
                   running, ops, closeCalled, loginSucceeded>>

(***************************************************************************)
(* _authenticate                                                           *)
(***************************************************************************)
\* re-authenticating without sending the request again
AfterAuthNoResend(r) ==
    IF r.ctx = "connect" THEN [r EXCEPT !.pc = "first_send", !.connOK = TRUE]
    ELSE [r EXCEPT !.pc = "ret", !.reauthOK = TRUE,
                   !.ret = Exc("ProxmoxClientError", "status")]

\* re-authenticating and starting the request over, as a retry loop would
AfterAuthStartOver(r) ==
    IF r.ctx = "connect" THEN [r EXCEPT !.pc = "first_send", !.connOK = TRUE]
    ELSE [r EXCEPT !.pc = "first_send", !.reauthOK = TRUE]

AfterAuth(r) ==
    IF r.ctx = "connect" THEN [r EXCEPT !.pc = "first_send", !.connOK = TRUE]
    ELSE [r EXCEPT !.pc = "resend", !.reauthOK = TRUE]

Authenticate(p) ==
    /\ running = p /\ task[p].pc = "authenticate"
    /\ IF UseApiToken(settings)
       THEN /\ SetTask(p, AfterAuth(task[p]))
            /\ UNCHANGED <<logins, running>>
       ELSE IF MissingCredentials(settings)
       THEN /\ SetTask(p, [task[p] EXCEPT
                             !.ret = Exc("ProxmoxAuthError", "config"),
                             !.pc = "ret"])
            /\ UNCHANGED <<logins, running>>
       ELSE IF ~IsLive(client)
       THEN \* self._client is None or closed: post raises, caught at line 75
            /\ SetTask(p, [task[p] EXCEPT
                             !.ret = Exc("ProxmoxAuthError", "login"),
                             !.pc = "ret"])
            /\ UNCHANGED <<logins, running>>
       ELSE /\ logins' = logins + 1
            /\ running' = 0
            /\ SetTask(p, [task[p] EXCEPT !.loginId = logins + 1,
                                          !.loginReq = LoginRequest,
                                          !.exchanges = @ + 1,
                                          !.pc = "login_wait"])
    /\ UNCHANGED <<settings, client, is_closed, opened, auth_ticket,
                   csrf_token, ops, closeCalled, loginSucceeded>>

LoginResponse(p, out) ==
    /\ running = 0 /\ task[p].pc = "login_wait"
    /\ out \in LoginOutcomes
    /\ running' = p
    /\ CASE out = "ok" ->
              /\ auth_ticket' = task[p].loginId
              /\ csrf_token' = task[p].loginId
              /\ loginSucceeded' = TRUE
              /\ SetTask(p, AfterAuth(task[p]))
         [] out = "no_csrf" ->
              /\ auth_ticket' = task[p].loginId
              /\ UNCHANGED <<csrf_token, loginSucceeded>>
              /\ SetTask(p, [task[p] EXCEPT
                               !.ret = Exc("ProxmoxAuthError", "login"),
                               !.pc = "ret"])
         [] OTHER ->
              /\ UNCHANGED <<auth_ticket, csrf_token, loginSucceeded>>
              /\ SetTask(p, [task[p] EXCEPT
                               !.ret = Exc("ProxmoxAuthError", "login"),
                               !.pc = "ret"])
    /\ UNCHANGED <<settings, client, is_closed, opened, logins, ops,
                   closeCalled>>

(***************************************************************************)
(* _request                                                                *)
(***************************************************************************)
FirstSend(p) ==
    /\ running = p /\ task[p].pc = "first_send"
    /\ LET r == [task[p] EXCEPT !.lclient = client, !.headers = GetHeaders,
                                !.calls = IF client # 0 THEN 1 ELSE 0]
       IN IF ~IsLive(client)
          THEN \* client.request raises; caught at line 112
               /\ SetTask(p, [r EXCEPT
                                !.ret = Exc("ProxmoxClientError", "closed"),
                                !.pc = "ret"])
               /\ UNCHANGED running
          ELSE /\ SetTask(p, [r EXCEPT
                                !.sent = <<RequestOf(r, r.headers)>>,
                                !.sends = @ + 1,
                                !.pc = "send_wait"])
               /\ running' = 0
    /\ UNCHANGED <<settings, client, is_closed, opened, auth_ticket,
                   csrf_token, logins, ops, closeCalled, loginSucceeded>>

SendResponse(p) ==
    /\ running = 0 /\ task[p].pc = "send_wait"
    /\ running' = p
    /\ \E resp \in Responses(task[p].path) :
       LET r == [task[p] EXCEPT !.first = resp.status]
       IN IF resp.status = 200
          THEN SetTask(p, [r EXCEPT !.ret = Ok(resp.data), !.pc = "ret"])
          ELSE IF resp.status = 0
          THEN SetTask(p, [r EXCEPT
                             !.ret = Exc("ProxmoxClientError", "transport"),
                             !.pc = "ret"])
          ELSE IF NeedsReauth(resp.status)
          THEN SetTask(p, [r EXCEPT !.reauths = @ + 1, !.ctx = "reauth",
                                    !.pc = "authenticate"])
          ELSE SetTask(p, [r EXCEPT
                             !.ret = Exc("ProxmoxClientError", "status"),
                             !.pc = "ret"])
    /\ UNCHANGED <<settings, client, is_closed, opened, auth_ticket,
                   csrf_token, logins, ops, closeCalled, loginSucceeded>>

Resend(p) ==
    /\ running = p /\ task[p].pc = "resend"
    /\ LET r == [task[p] EXCEPT !.headers = GetHeaders, !.calls = @ + 1]
       IN IF r.lclient \in is_closed
          THEN \* client.request raises RuntimeError inside the handler
               /\ SetTask(p, [r EXCEPT !.ret = Exc("RuntimeError", "closed"),
                                       !.pc = "ret"])
               /\ UNCHANGED running
          ELSE /\ SetTask(p, [r EXCEPT
                                !.sent = Append(@, RequestOf(r, r.headers)),
                                !.sends = @ + 1,
                                !.pc = "resend_wait"])
               /\ running' = 0
    /\ UNCHANGED <<settings, client, is_closed, opened, auth_ticket,
                   csrf_token, logins, ops, closeCalled, loginSucceeded>>

ResendResponse(p) ==
    /\ running = 0 /\ task[p].pc = "resend_wait"
    /\ running' = p
    /\ \E resp \in Responses(task[p].path) :
       IF resp.status = 200
       THEN SetTask(p, [task[p] EXCEPT !.ret = Ok(resp.data), !.pc = "ret"])
       ELSE IF resp.status = 0
       THEN SetTask(p, [task[p] EXCEPT
                          !.ret = Exc("httpx.TransportError", "transport"),
                          !.pc = "ret"])
       ELSE SetTask(p, [task[p] EXCEPT
                          !.ret = Exc("httpx.HTTPStatusError", "status"),
                          !.pc = "ret"])
    /\ UNCHANGED <<settings, client, is_closed, opened, auth_ticket,
                   csrf_token, logins, ops, closeCalled, loginSucceeded>>

(***************************************************************************)
(* The callers of _request                                                 *)
(***************************************************************************)
TagGuestsUntagged(kind, items, node) == items

\* vm["node"] = node_name; for containers also ct["type"] = "lxc"
TagGuests(kind, items, node) ==
    [i \in 1..Len(items) |->
        IF kind = "vms"
        THEN ("node" :> node) @@ items[i]
        ELSE ("node" :> node) @@ ("type" :> "lxc") @@ items[i]]

GuestPath(kind, node) ==
    <<"nodes", node, IF kind = "vms" THEN "qemu" ELSE "lxc">>

\* the for loop of get_all_vms / get_all_containers at node number r.idx
NextNode(r) ==
    IF r.idx > Len(r.nodes)
    THEN [r EXCEPT !.res = [type |-> "ok", detail |-> "", null |-> FALSE,
                            items |-> r.acc],
                   !.pc = "finish"]
    ELSE Get([r EXCEPT !.gets = Append(@, GuestPath(r.op,
                                                    r.nodes[r.idx].node))],
             GuestPath(r.op, r.nodes[r.idx].node))

\* get(): the result of _request is the result of the operation
ReturnGet(p) ==
    /\ running = p /\ task[p].pc = "ret" /\ task[p].op = "get"
    /\ SetTask(p, [task[p] EXCEPT !.res = task[p].ret, !.pc = "finish"])
    /\ UNCHANGED running
    /\ UNCHANGED <<settings, client, is_closed, opened, auth_ticket,
                   csrf_token, logins, ops, closeCalled, loginSucceeded>>

\* get_all_*: the node listing has returned or raised
ReturnNodes(p) ==
    /\ running = p /\ task[p].pc = "ret"
    /\ task[p].op \in {"vms", "cts"} /\ task[p].stage = "nodes"
    /\ LET r == task[p]
           n == IF r.ret.type = "ok"
                THEN NextNode([r EXCEPT !.nodes = r.ret.items, !.idx = 1,
                                        !.stage = "guests"])
                ELSE [r EXCEPT !.res = r.ret, !.pc = "finish"]
       IN SetTask(p, n)
    /\ UNCHANGED running
    /\ UNCHANGED <<settings, client, is_closed, opened, auth_ticket,
                   csrf_token, logins, ops, closeCalled, loginSucceeded>>

\* get_all_*: the per-node fetch has returned or raised
ReturnGuests(p) ==
    /\ running = p /\ task[p].pc = "ret"
    /\ task[p].op \in {"vms", "cts"} /\ task[p].stage = "guests"
    /\ LET r == task[p]
           node == r.nodes[r.idx].node
           n == IF r.ret.type = "ok"
                THEN NextNode([r EXCEPT
                        !.acc = @ \o TagGuests(r.op,
                                      IF r.ret.null THEN <<>> ELSE r.ret.items,
                                      node),
                        !.fetched = Append(@, TRUE),
                        !.idx = @ + 1])
                ELSE IF IsProxmoxClientError(r.ret.type)
                THEN NextNode([r EXCEPT !.fetched = Append(@, FALSE),
                                        !.idx = @ + 1])
                ELSE [r EXCEPT !.fetched = Append(@, FALSE),
                               !.res = r.ret, !.pc = "finish"]
       IN SetTask(p, n)
    /\ UNCHANGED running
    /\ UNCHANGED <<settings, client, is_closed, opened, auth_ticket,
                   csrf_token, logins, ops, closeCalled, loginSucceeded>>

(***************************************************************************)
(* close                                                                   *)
(***************************************************************************)
\* if self._client: await self._client.aclose()
Close(p) ==
    /\ running = p /\ task[p].pc = "close"
    /\ IF client # 0
       THEN /\ is_closed' = is_closed \cup {client}
            /\ SetTask(p, [task[p] EXCEPT !.lclient = client,
                                          !.pc = "aclose_wait"])
            /\ running' = 0
       ELSE /\ UNCHANGED <<is_closed, running>>
            /\ SetTask(p, [task[p] EXCEPT
                             !.res = [type |-> "ok", detail |-> "",
                                      null |-> TRUE, items |-> <<>>],
                             !.pc = "finish"])
    /\ UNCHANGED <<settings, client, opened, auth_ticket, csrf_token, logins,
                   ops, closeCalled, loginSucceeded>>

\* close() that leaves the closed transport in the handle
CloseFinishKeepsHandle(p) ==
    /\ running = 0 /\ task[p].pc = "aclose_wait"
    /\ running' = p
    /\ SetTask(p, [task[p] EXCEPT
                     !.res = [type |-> "ok", detail |-> "", null |-> TRUE,
                              items |-> <<>>],
                     !.pc = "finish"])
    /\ UNCHANGED <<settings, client, is_closed, opened, auth_ticket,
                   csrf_token, logins, ops, closeCalled, loginSucceeded>>

\* self._client = None, once aclose() has returned
CloseFinish(p) ==
    /\ running = 0 /\ task[p].pc = "aclose_wait"
    /\ client' = 0
    /\ running' = p
    /\ SetTask(p, [task[p] EXCEPT
                     !.res = [type |-> "ok", detail |-> "", null |-> TRUE,
                              items |-> <<>>],
                     !.pc = "finish"])
    /\ UNCHANGED <<settings, is_closed, opened, auth_ticket, csrf_token,
                   logins, ops, closeCalled, loginSucceeded>>

\* the operation returns or raises to its caller; its locals are gone
Finish(p) ==
    /\ running = p /\ task[p].pc = "finish" /\ task[p].tool = "none"
    /\ running' = 0
    /\ SetTask(p, IdleTask)
    /\ UNCHANGED <<settings, client, is_closed, opened, auth_ticket,
                   csrf_token, logins, ops, closeCalled, loginSucceeded>>

\* the steps of one _request call
RequestStep(p) ==
    \/ GetClient(p)
    \/ Authenticate(p)
    \/ \E out \in LoginOutcomes : LoginResponse(p, out)
    \/ FirstSend(p)
    \/ SendResponse(p)
    \/ Resend(p)
    \/ ResendResponse(p)

\* one caller using every operation of the client, one after the other
Next ==
    \/ StartGet(1, MaxOps)
    \/ \E kind \in {"vms", "cts"} : StartGetAll(1, kind, MaxOps)
    \/ StartClose(1, MaxOps)
    \/ RequestStep(1)
    \/ ReturnGet(1)
    \/ ReturnNodes(1)
    \/ ReturnGuests(1)
    \/ Close(1)
    \/ CloseFinish(1)
    \/ Finish(1)

Spec == Init /\ [][Next]_vars

\* concurrent callers sharing the client: requests and close interleave at
\* every upstream await
NextConc ==
    \E p \in Procs :
        \/ StartGet(p, MaxConcOps)
        \/ StartClose(p, MaxConcOps)
        \/ RequestStep(p)
        \/ ReturnGet(p)
        \/ Close(p)
        \/ CloseFinish(p)
        \/ Finish(p)

SpecConc == Init /\ [][NextConc]_vars

\* one caller, every operation of the client, a short run
NextLive ==
    \/ StartGet(1, MaxLiveOps)
    \/ \E kind \in {"vms", "cts"} : StartGetAll(1, kind, MaxLiveOps)
    \/ StartClose(1, MaxLiveOps)
    \/ RequestStep(1)
    \/ ReturnGet(1)
    \/ ReturnNodes(1)
    \/ ReturnGuests(1)
    \/ Close(1)
    \/ CloseFinish(1)
    \/ Finish(1)

\* the event loop resumes a coroutine that can run, and every upstream
\* await ends: the transport is built with timeout=30.0 (lines 33-39), so
\* a response or a timeout failure arrives for each login, send and aclose
Fairness ==
    /\ WF_vars(GetClient(1))
    /\ WF_vars(Authenticate(1))
    /\ WF_vars(\E out \in LoginOutcomes : LoginResponse(1, out))
    /\ WF_vars(FirstSend(1))
    /\ WF_vars(SendResponse(1))
    /\ WF_vars(Resend(1))
    /\ WF_vars(ResendResponse(1))
    /\ WF_vars(ReturnGet(1))
    /\ WF_vars(ReturnNodes(1))
    /\ WF_vars(ReturnGuests(1))
    /\ WF_vars(Close(1))
    /\ WF_vars(CloseFinish(1))

SpecLive == Init /\ [][NextLive]_vars /\ Fairness

(***************************************************************************)
(* tools/vms.py: the computations of the tools                             *)
(***************************************************************************)
\* dict.get(k, d)
Field(rec, k, d) == IF k \in DOMAIN rec THEN rec[k] ELSE d

\* key.startswith(pre)
StartsWith(s, pre) == Len(s) >= Len(pre) /\ SubSeq(s, 1, Len(pre)) = pre

\* sub in s
Contains(s, sub) ==
    \E i \in 1..(Len(s) - Len(sub) + 1) : SubSeq(s, i, i + Len(sub) - 1) = sub

UpperCase == <<"A", "B", "C", "D", "E", "F", "G", "H", "I", "J", "K", "L", "M",
               "N", "O", "P", "Q", "R", "S", "T", "U", "V", "W", "X", "Y", "Z">>

LowerCase == <<"a", "b", "c", "d", "e", "f", "g", "h", "i", "j", "k", "l", "m",
               "n", "o", "p", "q", "r", "s", "t", "u", "v", "w", "x", "y", "z">>

LowerChar(c) ==
    IF \E i \in 1..Len(UpperCase) : UpperCase[i] = c
    THEN LowerCase[CHOOSE i \in 1..Len(UpperCase) : UpperCase[i] = c]
    ELSE c

\* value.lower()
Lower(s) == [i \in 1..Len(s) |-> LowerChar(s[i])]

\* the truth value of a configuration value
PyTruthy(v) == IF v.t = "str" THEN v.s # <<>> ELSE v.n # 0

P_net == <<"n", "e", "t">>

disk_prefixes ==
    {<<"s", "c", "s", "i">>, <<"v", "i", "r", "t", "i", "o">>,
     <<"i", "d", "e">>, <<"s", "a", "t", "a">>,
     <<"r", "o", "o", "t", "f", "s">>, <<"m", "p">>}

W_volume == <<"v", "o", "l", "u", "m", "e">>

\* if key.startswith("net") and value
IsNetwork(kv) == StartsWith(kv[1], P_net) /\ PyTruthy(kv[2])

IsDiskByPrefixOnly(kv) == \E pre \in disk_prefixes : StartsWith(kv[1], pre)

\* if any(key.startswith(p) for p in disk_prefixes) and value:
\*     if isinstance(value, str) and (":" in value or "volume" in value.lower())
IsDisk(kv) ==
    /\ \E pre \in disk_prefixes : StartsWith(kv[1], pre)
    /\ PyTruthy(kv[2])
    /\ kv[2].t = "str"
    /\ (Contains(kv[2].s, <<":">>) \/ Contains(Lower(kv[2].s), W_volume))

\* networks of get_vm_info, in the order of config.items()
ParseNetworks(cfg) ==
    LET sel == SelectSeq(cfg, IsNetwork)
    IN [i \in 1..Len(sel) |-> [interface |-> sel[i][1], config |-> sel[i][2]]]

\* disks of get_vm_info, in the order of config.items()
ParseDisks(cfg) ==
    LET sel == SelectSeq(cfg, IsDisk)
    IN [i \in 1..Len(sel) |-> [device |-> sel[i][1], config |-> sel[i][2]]]

SnapshotEntry(snap) ==
    [name |-> Field(snap, "name", None),
     description |-> Field(snap, "description", ""),
     snaptime |-> Field(snap, "snaptime", None),
     vmstate |-> Field(snap, "vmstate", FALSE),
     parent |-> Field(snap, "parent", None)]

FilterSnapshotsHeadOnly(snaps) ==
    LET rest == IF snaps # <<>> /\ Head(snaps).name = "current"
                THEN Tail(snaps) ELSE snaps
    IN [i \in 1..Len(rest) |-> SnapshotEntry(rest[i])]

\* the loop of list_vm_snapshots over the upstream list
FilterSnapshots(snaps) ==
    LET Kept(snap) == Field(snap, "name", None) # "current"
        sel == SelectSeq(snaps, Kept)
    IN [i \in 1..Len(sel) |-> SnapshotEntry(sel[i])]

RECURSIVE SumField(_, _)
\* total += n.get(k, 0) over the node records
SumField(nodes, k) ==
    IF nodes = <<>> THEN 0
    ELSE Field(Head(nodes), k, 0) + SumField(Tail(nodes), k)

ClampNone(total) == total

\* max(total, 1)
Clamp(total) == IF total > 1 THEN total ELSE 1

\* round(n / d), halves to the even neighbour
RoundHalfEven(n, d) ==
    LET q == n \div d
        r == n % d
    IN IF 2 * r < d THEN q
       ELSE IF 2 * r > d THEN q + 1
       ELSE IF q % 2 = 0 THEN q ELSE q + 1

\* round((used / max(total, 1)) * 100, 2) in hundredths of a percent; a
\* zero denominator raises ZeroDivisionError
Percent(used, total) ==
    LET d == Clamp(total)
    IN IF d = 0 THEN [raised |-> TRUE, hundredths |-> 0]
       ELSE [raised |-> FALSE, hundredths |-> RoundHalfEven(used * 10000, d)]

\* the "totals" member of get_cluster_status
Totals(nodes) ==
    [cpu_cores |-> SumField(nodes, "maxcpu"),
     memory_total_bytes |-> SumField(nodes, "maxmem"),
     memory_used_bytes |-> SumField(nodes, "mem"),
     memory_usage_percent |->
         Percent(SumField(nodes, "mem"), SumField(nodes, "maxmem")),
     disk_total_bytes |-> SumField(nodes, "maxdisk"),
     disk_used_bytes |-> SumField(nodes, "disk"),
     disk_usage_percent |->
         Percent(SumField(nodes, "disk"), SumField(nodes, "maxdisk"))]

ValidTimeframeAny(timeframe) == TRUE

\* timeframe in ("hour", "day", "week", "month", "year")
ValidTimeframe(timeframe) ==
    timeframe \in {"hour", "day", "week", "month", "year"}

\* for vm in guests: if vm.get("vmid") == vmid: node = vm.get("node"); break
FindNode(guests, vmid) ==
    LET hits == {i \in 1..Len(guests) : guests[i].vmid = vmid}
    IN IF hits = {} THEN None
       ELSE guests[CHOOSE i \in hits : \A j \in hits : i <= j].node

\* the type set only where upstream gave none
MarkQemuIfAbsent(vms) == [i \in 1..Len(vms) |-> vms[i] @@ ("type" :> "qemu")]

\* for vm in vms: vm["type"] = "qemu"
MarkQemu(vms) == [i \in 1..Len(vms) |-> ("type" :> "qemu") @@ vms[i]]

\* one output record of list_vms
NormalizeOne(g) ==
    [vmid |-> Field(g, "vmid", None),
     name |-> Field(g, "name", <<"VM-", Field(g, "vmid", None)>>),
     status |-> Field(g, "status", None),
     node |-> Field(g, "node", None),
     type |-> Field(g, "type", None),
     cpus |-> Field(g, "cpus", Field(g, "maxcpu", 0)),
     memory_bytes |-> Field(g, "maxmem", 0),
     disk_bytes |-> Field(g, "maxdisk", 0),
     uptime_seconds |-> Field(g, "uptime", 0)]

NormalizeNamedOnly(guests) ==
    LET Named(g) == "name" \in DOMAIN g
        sel == SelectSeq(guests, Named)
    IN [i \in 1..Len(sel) |-> NormalizeOne(sel[i])]

\* the output records of list_vms
Normalize(guests) == [i \in 1..Len(guests) |-> NormalizeOne(guests[i])]

DataPointsReversed(rrd_data) ==
    [i \in 1..Len(rrd_data) |->
        [timestamp |-> Field(rrd_data[Len(rrd_data) + 1 - i], "time", None),
         memory_bytes |-> Field(rrd_data[Len(rrd_data) + 1 - i], "mem", 0)]]

\* the data points of get_vm_metrics
DataPoints(rrd_data) ==
    [i \in 1..Len(rrd_data) |->
        [timestamp |-> Field(rrd_data[i], "time", None),
         memory_bytes |-> Field(rrd_data[i], "mem", 0)]]

\* the output records of list_nodes
NodeRows(nodes) ==
    [i \in 1..Len(nodes) |->
        [node |-> Field(nodes[i], "node", None),
         memory_used_bytes |-> Field(nodes[i], "mem", 0),
         memory_total_bytes |-> Field(nodes[i], "maxmem", 0),
         disk_used_bytes |-> Field(nodes[i], "disk", 0),
         disk_total_bytes |-> Field(nodes[i], "maxdisk", 0)]]

(***************************************************************************)
(* tools/vms.py: the tools, each a coroutine awaiting client operations    *)
(***************************************************************************)
GuestTools == {"get_vm_info", "get_vm_status", "get_vm_metrics",
               "list_vm_snapshots", "get_vm_filesystem_info"}

ListTools == {"list_vms", "list_nodes", "get_cluster_status"}

\* the guest ids, node names and timeframes the tools are called with
VmidArgs == {100, 300, 999}

NodeArgs == {None, "pve1"}

TimeframeArgs == {"hour", "decade"}

\* await proxmox.get_all_vms() / get_all_containers() from a tool
CallGetAll(r, kind, name, tstage) ==
    Get([r EXCEPT !.op = kind, !.stage = "nodes", !.nodes = <<>>, !.idx = 0,
                  !.acc = <<>>, !.fetched = <<>>, !.res = NoRet,
                  !.gets = <<<<"nodes">>>>, !.sends = 0,
                  !.tstage = tstage, !.tcalls = Append(@, name)],
        <<"nodes">>)

\* await proxmox.<name>(...) from a tool, for the accessors that are one get()
CallGet(r, path, params, name, tstage) ==
    [Get([r EXCEPT !.op = "get", !.stage = "", !.nodes = <<>>, !.idx = 0,
                   !.acc = <<>>, !.fetched = <<>>, !.res = NoRet,
                   !.gets = <<>>, !.sends = 0,
                   !.tstage = tstage, !.tcalls = Append(@, name)],
         path) EXCEPT !.params = params]

\* the tool returns or raises; the locals of the awaited operation are
\* gone, r.res stays as the result of the last client call of the tool
ToolReturn(r, v) ==
    [r EXCEPT !.tres = v, !.pc = "tool_done", !.op = "none", !.stage = "",
              !.nodes = <<>>, !.idx = 0, !.acc = <<>>, !.fetched = <<>>,
              !.gets = <<>>, !.sends = 0, !.exchanges = 0, !.ret = NoRet,
              !.sent = <<>>,
              !.headers = EmptyDict]

\* the exception of a client accessor the tool object does not have
MissingMethod == Exc("AttributeError", "no attribute get_vm_agent_fsinfo")

\* "500" in str(e) or "QEMU guest agent" in str(e).lower(): the second test
\* looks for capital letters in a lower-cased text
AgentSignature(e) == e.detail = "500" \/ FALSE

\* the text of a not-found value of each tool
NotFound(r) ==
    IF r.tool = "get_vm_info" THEN ToolError("not found on any node", NoRet)
    ELSE IF r.tool = "list_vm_snapshots" THEN ToolErrorList("not found", NoRet)
    ELSE ToolError("not found", NoRet)

\* the statements after the node is known
AfterLookup(r) ==
    IF r.tool = "get_vm_info"
    THEN CallGet(r, <<"nodes", r.node, "qemu", r.vmid, "config">>, None,
                 "get_vm_config", "vm_config")
    ELSE IF r.tool = "get_vm_status"
    THEN CallGet(r, <<"nodes", r.node, "qemu", r.vmid, "status", "current">>,
                 None, "get_vm_status", "vm_status")
    ELSE IF r.tool = "get_vm_metrics"
    THEN CallGet(r, <<"nodes", r.node, "qemu", r.vmid, "rrddata">>,
                 r.timeframe, "get_vm_rrddata", "rrd")
    ELSE IF r.tool = "list_vm_snapshots"
    THEN CallGet(r, <<"nodes", r.node, "qemu", r.vmid, "snapshot">>, None,
                 "get_vm_snapshots", "snapshots")
    ELSE IF AgentSignature(MissingMethod)
    THEN ToolReturn(r, ToolError("QEMU guest agent not available",
                                 MissingMethod))
    ELSE ToolReturn(r, ToolError("Failed to get filesystem info",
                                 MissingMethod))

\* if node is None: all_vms = await proxmox.get_all_vms() ...
Lookup(r) ==
    IF r.node = None
    THEN CallGetAll(r, "vms", "get_all_vms", "lookup_vms")
    ELSE AfterLookup(r)

\* the scan of the fetched listings for the guest id
Resolve(r, guests) ==
    LET n == FindNode(guests, r.vmid)
    IN IF n = None THEN ToolReturn(r, NotFound(r))
       ELSE AfterLookup([r EXCEPT !.all_vms = <<>>, !.node = n])

\* what is left the same by every step of a tool between two awaits
ToolFrame ==
    UNCHANGED <<settings, client, is_closed, opened, auth_ticket, csrf_token,
                logins, ops, closeCalled, loginSucceeded, running>>

\* a tool is resumed with the result of the client operation it awaited
Resumed(p, tstages) ==
    /\ running = p /\ task[p].pc = "finish" /\ task[p].tool # "none"
    /\ task[p].tstage \in tstages

Done(r) == [r EXCEPT !.touts = Append(@, r.res.type)]

\* list_vms(), list_nodes(), get_cluster_status()
StartListTool(p, tool, max) ==
    /\ running = 0 /\ task[p].pc = "idle" /\ ops < max
    /\ tool \in ListTools
    /\ running' = p /\ ops' = ops + 1
    /\ LET r == [IdleTask EXCEPT !.tool = tool]
       IN SetTask(p, IF tool = "list_vms"
                     THEN CallGetAll(r, "vms", "get_all_vms", "vms")
                     ELSE IF tool = "list_nodes"
                     THEN CallGet(r, <<"nodes">>, None, "get_nodes",
                                  "nodes_list")
                     ELSE CallGet(r, <<"cluster", "status">>, None,
                                  "get_cluster_status", "cluster"))
    /\ UNCHANGED <<settings, client, is_closed, opened, auth_ticket,
                   csrf_token, logins, closeCalled, loginSucceeded>>

\* the tools taking vmid, node = None and, for get_vm_metrics,
\* timeframe = "hour"
StartGuestTool(p, tool, vmid, node, timeframe, max) ==
    /\ running = 0 /\ task[p].pc = "idle" /\ ops < max
    /\ tool \in GuestTools
    /\ tool = "get_vm_metrics" \/ timeframe = "hour"
    /\ running' = p /\ ops' = ops + 1
    /\ LET r == [IdleTask EXCEPT !.tool = tool, !.vmid = vmid, !.node = node,
                                 !.timeframe = timeframe]
       IN SetTask(p, IF tool = "get_vm_metrics" /\ ~ValidTimeframe(timeframe)
                     THEN ToolReturn(r, ToolError("Invalid timeframe", NoRet))
                     ELSE Lookup(r))
    /\ UNCHANGED <<settings, client, is_closed, opened, auth_ticket,
                   csrf_token, logins, closeCalled, loginSucceeded>>

\* list_vms: vms = await proxmox.get_all_vms() has returned or raised
ListVmsGotVms(p) ==
    /\ Resumed(p, {"vms"})
    /\ LET r == Done(task[p])
       IN SetTask(p, IF r.res.type # "ok" THEN ToolReturn(r, ToolRaised(r.res))
                     ELSE CallGetAll([r EXCEPT !.all_vms = r.res.items],
                                     "cts", "get_all_containers", "cts"))
    /\ ToolFrame

\* list_vms: containers = await proxmox.get_all_containers() and the rest
ListVmsGotContainers(p) ==
    /\ Resumed(p, {"cts"})
    /\ LET r == Done(task[p])
       IN SetTask(p, IF r.res.type # "ok" THEN ToolReturn(r, ToolRaised(r.res))
                     ELSE ToolReturn(r, ToolValue(
                              Normalize(MarkQemu(r.all_vms) \o r.res.items))))
    /\ ToolFrame

\* list_nodes: nodes = await proxmox.get_nodes() and the rest
NodesListed(p) ==
    /\ Resumed(p, {"nodes_list"})
    /\ LET r == Done(task[p])
       IN SetTask(p, IF r.res.type # "ok" THEN ToolReturn(r, ToolRaised(r.res))
                     ELSE ToolReturn(r, ToolValue(NodeRows(r.res.items))))
    /\ ToolFrame

\* get_cluster_status: the guarded first call
ClusterStatusFetched(p) ==
    /\ Resumed(p, {"cluster"})
    /\ LET r == Done(task[p])
       IN SetTask(p, IF r.res.type # "ok"
                     THEN ToolReturn(r, ToolError(
                              "Failed to get cluster status", r.res))
                     ELSE CallGet(r, <<"nodes">>, None, "get_nodes",
                                  "cluster_nodes"))
    /\ ToolFrame

\* get_cluster_status: node_details = await proxmox.get_nodes() and the totals
ClusterNodesFetched(p) ==
    /\ Resumed(p, {"cluster_nodes"})
    /\ LET r == Done(task[p])
           t == Totals(r.res.items)
       IN SetTask(p, IF r.res.type # "ok" THEN ToolReturn(r, ToolRaised(r.res))
                     ELSE IF t.memory_usage_percent.raised
                             \/ t.disk_usage_percent.raised
                     THEN ToolReturn(r, ToolRaised(
                              Exc("ZeroDivisionError", "division by zero")))
                     ELSE ToolReturn(r, ToolValue(t)))
    /\ ToolFrame

\* the lookup: all_vms = await proxmox.get_all_vms() has returned or raised
LookupVms(p) ==
    /\ Resumed(p, {"lookup_vms"})
    /\ LET r == Done(task[p])
       IN SetTask(p,
            IF r.res.type # "ok" THEN ToolReturn(r, ToolRaised(r.res))
            ELSE IF r.tool \in {"get_vm_info", "get_vm_status"}
            THEN CallGetAll([r EXCEPT !.all_vms = r.res.items], "cts",
                            "get_all_containers", "lookup_cts")
            ELSE Resolve(r, r.res.items))
    /\ ToolFrame

\* the lookup: all_containers = await proxmox.get_all_containers()
LookupContainers(p) ==
    /\ Resumed(p, {"lookup_cts"})
    /\ LET r == Done(task[p])
       IN SetTask(p, IF r.res.type # "ok" THEN ToolReturn(r, ToolRaised(r.res))
                     ELSE Resolve(r, r.all_vms \o r.res.items))
    /\ ToolFrame

\* the value built by get_vm_info / get_vm_status once the type is known
GuestValue(r, vm_type) ==
    ToolValue([vmid |-> r.vmid, node |-> r.node, type |-> vm_type,
               status |-> r.status.items,
               networks |-> IF r.tool = "get_vm_info"
                            THEN ParseNetworks(r.config.items) ELSE <<>>,
               disks |-> IF r.tool = "get_vm_info"
                         THEN ParseDisks(r.config.items) ELSE <<>>])

ContainerPath(r, leaf) == <<"nodes", r.node, "lxc", r.vmid>> \o leaf

VmPath(r, leaf) == <<"nodes", r.node, "qemu", r.vmid>> \o leaf

TryContainerGiveUp(r) ==
    ToolReturn(r, ToolError("Failed to get status", r.res))

\* except Exception: try the container endpoints
TryContainer(r) ==
    IF r.tool = "get_vm_info"
    THEN CallGet([r EXCEPT !.vmExc = r.res], ContainerPath(r, <<"config">>),
                 None, "get_container_config", "ct_config")
    ELSE CallGet([r EXCEPT !.vmExc = r.res],
                 ContainerPath(r, <<"status", "current">>),
                 None, "get_container_status", "ct_status")

\* try: config = await get_vm_config(); status = await get_vm_status()
ProbeVm(p) ==
    /\ Resumed(p, {"vm_config", "vm_status"})
    /\ LET r == Done(task[p])
       IN SetTask(p,
            IF r.res.type # "ok" THEN TryContainer(r)
            ELSE IF r.tstage = "vm_config"
            THEN CallGet([r EXCEPT !.config = r.res],
                         VmPath(r, <<"status", "current">>), None,
                         "get_vm_status", "vm_status")
            ELSE ToolReturn([r EXCEPT !.status = r.res],
                            GuestValue([r EXCEPT !.status = r.res], "qemu")))
    /\ ToolFrame

\* except Exception as e: return {"error": f"Failed to get ...: {e}"}
ReportedCause(r) == r.res

\* try: config = await get_container_config(); status = await
\* get_container_status()
ProbeContainer(p) ==
    /\ Resumed(p, {"ct_config", "ct_status"})
    /\ LET r == Done(task[p])
       IN SetTask(p,
            IF r.res.type # "ok"
            THEN ToolReturn(r, ToolError(
                     IF r.tool = "get_vm_info"
                     THEN "Failed to get VM/container info"
                     ELSE "Failed to get status", ReportedCause(r)))
            ELSE IF r.tstage = "ct_config"
            THEN CallGet([r EXCEPT !.config = r.res],
                         ContainerPath(r, <<"status", "current">>), None,
                         "get_container_status", "ct_status")
            ELSE ToolReturn([r EXCEPT !.status = r.res],
                            GuestValue([r EXCEPT !.status = r.res], "lxc")))
    /\ ToolFrame

\* get_vm_metrics: rrd_data = await proxmox.get_vm_rrddata(...) and the rest
MetricsFetched(p) ==
    /\ Resumed(p, {"rrd"})
    /\ LET r == Done(task[p])
       IN SetTask(p,
            IF r.res.type # "ok"
            THEN ToolReturn(r, ToolError("Failed to get metrics", r.res))
            ELSE IF r.res.null \/ r.res.items = <<>>
            THEN ToolReturn(r, ToolValue(
                     [message |-> "No metrics data available",
                      data_points |-> <<>>]))
            ELSE ToolReturn(r, ToolValue(
                     [data_points_count |-> Len(DataPoints(r.res.items)),
                      data_points |-> DataPoints(r.res.items)])))
    /\ ToolFrame

\* list_vm_snapshots: snapshots = await proxmox.get_vm_snapshots(...) and the
\* rest
SnapshotsFetched(p) ==
    /\ Resumed(p, {"snapshots"})
    /\ LET r == Done(task[p])
       IN SetTask(p,
            IF r.res.type # "ok"
            THEN ToolReturn(r, ToolErrorList("Failed to get snapshots", r.res))
            ELSE ToolReturn(r, ToolValue(
                     FilterSnapshots(IF r.res.null THEN <<>>
                                     ELSE r.res.items))))
    /\ ToolFrame

\* the tool has returned or raised to its caller; its locals are gone
ToolFinish(p) ==
    /\ running = p /\ task[p].pc = "tool_done"
    /\ running' = 0
    /\ SetTask(p, IdleTask)
    /\ UNCHANGED <<settings, client, is_closed, opened, auth_ticket,
                   csrf_token, logins, ops, closeCalled, loginSucceeded>>

\* _authenticate in behaviours of at most max login exchanges
AuthenticateBounded(p, max) == Authenticate(p) /\ logins' <= max

\* the steps of the client operations a tool awaits
ClientStep(p) ==
    \/ GetClient(p)
    \/ AuthenticateBounded(p, MaxToolLogins)
    \/ \E out \in LoginOutcomes : LoginResponse(p, out)
    \/ FirstSend(p)
    \/ SendResponse(p)
    \/ Resend(p)
    \/ ResendResponse(p)
    \/ ReturnGet(p)
    \/ ReturnNodes(p)
    \/ ReturnGuests(p)

\* one caller invoking the tools, one after the other
NextTools ==
    \/ \E tool \in ListTools : StartListTool(1, tool, MaxToolOps)
    \/ \E tool \in GuestTools, vmid \in VmidArgs, node \in NodeArgs,
          timeframe \in TimeframeArgs :
          StartGuestTool(1, tool, vmid, node, timeframe, MaxToolOps)
    \/ ClientStep(1)
    \/ ListVmsGotVms(1)
    \/ ListVmsGotContainers(1)
    \/ NodesListed(1)
    \/ ClusterStatusFetched(1)
    \/ ClusterNodesFetched(1)
    \/ LookupVms(1)
    \/ LookupContainers(1)
    \/ ProbeVm(1)
    \/ ProbeContainer(1)
    \/ MetricsFetched(1)
    \/ SnapshotsFetched(1)
    \/ ToolFinish(1)

\* the tools are served with a static token or a username and password
InitTools == Init /\ settings \in {Settings("root@pam!mcp", "secret", None, None),
                                   Settings(None, None, "root", "pw")}

SpecTools == InitTools /\ [][NextTools]_vars

(***************************************************************************)
(* Properties                                                              *)
(***************************************************************************)
RECURSIVE ExpectedGuests(_, _, _)
\* the guests of the nodes whose fetch succeeded, in listing order, each
\* tagged with its node
ExpectedGuests(kind, nodes, fetched) ==
    IF fetched = <<>> \/ nodes = <<>> THEN <<>>
    ELSE LET node == Head(nodes).node
             data == IF kind = "vms" THEN QemuOf(node) ELSE LxcOf(node)
         IN (IF Head(fetched)
             THEN [i \in 1..Len(data.items) |->
                     [k \in DOMAIN data.items[i] \cup
                            (IF kind = "vms" THEN {"node"}
                             ELSE {"node", "type"}) |->
                        IF k = "node" THEN node
                        ELSE IF k = "type" /\ kind = "cts" THEN "lxc"
                        ELSE data.items[i][k]]]
             ELSE <<>>)
            \o ExpectedGuests(kind, Tail(nodes), Tail(fetched))

\* C1: once the node listing has returned, get_all_vms and
\* get_all_containers do not raise, whatever per-node fetches fail, and
\* return exactly the guests of the nodes whose fetch succeeded, each tagged
\* with the node it was fetched from.
C1_PartialFailureTolerated ==
    \A p \in Procs :
        (task[p].op \in {"vms", "cts"} /\ task[p].stage = "guests"
         /\ task[p].pc = "finish")
        => /\ task[p].res.type = "ok"
           /\ task[p].res.items =
                ExpectedGuests(task[p].op, task[p].nodes, task[p].fetched)

\* C2 (as claimed): a 401 answer to the first send leads to exactly one
\* call of _authenticate and exactly one re-send.
C2_ExactlyOneResend ==
    \A p \in Procs :
        (task[p].pc = "ret" /\ task[p].first = 401)
        => task[p].reauths = 1 /\ Len(task[p].sent) = 2

\* C2 (amended): a 401 answer to the first send leads to exactly one call
\* of _authenticate; when that call returns, client.request is called
\* exactly once more with the same method, path and params, and when it
\* raises the request is not sent again.  No request is sent a third time,
\* no second re-authentication happens, and nothing but a 401 answer to the
\* first send causes a re-authentication or a re-send.
C2_OneReauthAtMostOneResend ==
    \A p \in Procs :
        LET r == task[p] IN
        /\ r.reauths <= 1 /\ r.calls <= 2 /\ Len(r.sent) <= 2
        /\ (r.first = 401) <=> (r.reauths = 1)
        /\ (r.pc = "ret" /\ r.first = 401)
             => r.calls = (IF r.reauthOK THEN 2 ELSE 1)
        /\ r.calls = 2 => r.first = 401 /\ r.reauthOK
        /\ Len(r.sent) = 2
             => /\ r.sent[2].method = r.sent[1].method
                /\ r.sent[2].path = r.sent[1].path
                /\ r.sent[2].params = r.sent[1].params

\* a 401 answer, a successful re-authentication and a re-send that was
\* answered
C2_Witness ==
    \E p \in Procs :
        /\ task[p].pc = "ret" /\ task[p].first = 401 /\ task[p].reauthOK
        /\ Len(task[p].sent) = 2 /\ task[p].loginId # 0

\* C3: when the first send is answered 401 and the re-send fails, _request
\* raises the client's request error (ProxmoxClientError or a subclass).
C3_ResendFailureIsClientError ==
    \A p \in Procs :
        (task[p].pc = "ret" /\ task[p].first = 401 /\ task[p].calls = 2
         /\ task[p].ret.type # "ok")
        => IsProxmoxClientError(task[p].ret.type)

\* C4: a first send answered with a non-2xx status other than 401, or not
\* answered at all (timeout, transport failure), makes _request raise the
\* request error at once: no re-authentication and no second send.
C4_OtherFailuresNotRetried ==
    \A p \in Procs :
        task[p].first \in {0, 500}
        => /\ task[p].pc \in {"ret", "finish"}
           /\ task[p].ret.type = "ProxmoxClientError"
           /\ task[p].reauths = 0
           /\ task[p].calls = 1 /\ Len(task[p].sent) = 1

\* a request whose first send timed out has raised
C4_Witness ==
    \E p \in Procs :
        /\ task[p].pc = "ret" /\ task[p].first = 0
        /\ task[p].ret.type = "ProxmoxClientError"

TicketSamples == {0, 1, 2}

TokenHeader(st) ==
    <<"PVEAPIToken=", st.proxmox_api_token_id, "=",
      st.proxmox_api_token_secret>>

\* C5: with a static token configured the request headers are the
\* Authorization token header built from the id and the secret and nothing
\* else (no Cookie), with or without a stored ticket; with only a username
\* and password configured and after a successful login exchange they are
\* the Cookie built from the stored ticket and the anti-forgery token
\* header, without an Authorization header.
C5_HeaderSelection ==
    /\ UseApiToken(settings)
         => /\ \A t \in TicketSamples, c \in TicketSamples :
                  LET h == HeadersFor(settings, t, c) IN
                  /\ DOMAIN h = {"Authorization"}
                  /\ h["Authorization"] = TokenHeader(settings)
            /\ DOMAIN GetHeaders = {"Authorization"}
            /\ GetHeaders["Authorization"] = TokenHeader(settings)
            /\ \A p \in Procs : \A i \in 1..Len(task[p].sent) :
                  /\ DOMAIN task[p].sent[i].headers = {"Authorization"}
                  /\ task[p].sent[i].headers["Authorization"]
                       = TokenHeader(settings)
    /\ (~UseApiToken(settings) /\ ~MissingCredentials(settings)
        /\ loginSucceeded)
         => /\ auth_ticket # 0
            /\ DOMAIN GetHeaders = {"Cookie", "CSRFPreventionToken"}
            /\ GetHeaders["Cookie"] = <<"PVEAuthCookie=", auth_ticket>>
            /\ GetHeaders["CSRFPreventionToken"] = <<csrf_token>>

\* a request sent with the cookie of a successful login exchange
C5_Witness ==
    /\ ~UseApiToken(settings) /\ loginSucceeded
    /\ \E p \in Procs :
          /\ task[p].pc = "send_wait"
          /\ "Cookie" \in DOMAIN task[p].sent[1].headers

CredentialsConfigured(st) == UseApiToken(st) \/ ~MissingCredentials(st)

\* C6: every request _request sends upstream carries the static token
\* header or the session cookie plus the anti-forgery header, in every
\* interleaving and after earlier operations that failed.
C6_EverySendAuthenticated ==
    CredentialsConfigured(settings)
    => \A p \in Procs : \A i \in 1..Len(task[p].sent) :
          LET d == DOMAIN task[p].sent[i].headers IN
          \/ "Authorization" \in d
          \/ {"Cookie", "CSRFPreventionToken"} \subseteq d

PastGetClient(r) == r.op \in {"get", "vms", "cts"}
                    /\ r.pc \notin {"idle", "get_client"}

\* C7: _get_client opens a transport and authenticates only when the handle
\* is unset or closed; with a live handle it returns that transport, opens
\* nothing and does not authenticate.  Without a close, any number of
\* requests opens exactly one transport.
C7_ConnectIdempotent ==
    /\ \A p \in Procs :
          LET r == task[p] IN
          /\ r.foundLive
               => /\ ~r.openedHere /\ ~r.connAuth
                  /\ r.entry # 0
                  /\ r.pc = "first_send" => client = r.entry
                  /\ r.calls > 0 => r.lclient = r.entry
          /\ r.openedHere
               => /\ ~r.foundLive /\ r.connAuth
                  /\ r.entry = 0 \/ r.entry \in is_closed
          /\ PastGetClient(r) => (r.foundLive \/ r.openedHere)
    /\ ~closeCalled
         => /\ opened <= 1
            /\ (\E p \in Procs : PastGetClient(task[p])) => opened = 1

\* a second request found the transport of the first one and used it
C7_Witness ==
    /\ ~closeCalled /\ opened = 1 /\ ops >= 2
    /\ \E p \in Procs :
          /\ task[p].foundLive /\ task[p].pc = "send_wait"
          /\ task[p].lclient = 1

LiveTransports == (1..opened) \ is_closed

\* C8: at most one transport that was opened and not closed exists at any
\* time, and every such transport is the one in the handle.
C8_SingleTransport ==
    /\ Cardinality(LiveTransports) <= 1
    /\ \A t \in LiveTransports : client = t

\* C9: close() closes the transport and unsets the handle; close() with the
\* handle unset changes nothing and returns normally; a request that finds
\* no live transport opens a new one and authenticates before it sends.
C9_CloseReleasesAndReopens ==
    /\ [](\A p \in Procs :
            LET r == task[p] IN
            /\ (r.op = "close" /\ r.pc = "aclose_wait")
                 => r.lclient # 0 /\ r.lclient \in is_closed
            /\ (r.op = "close" /\ r.pc = "finish")
                 => /\ r.res.type = "ok"
                    /\ client = 0
                    /\ r.lclient # 0 => r.lclient \in is_closed
            /\ (PastGetClient(r) /\ (r.entry = 0 \/ ~r.foundLive))
                 => /\ r.openedHere /\ r.connAuth
                    /\ r.calls > 0
                         => /\ r.connOK
                            /\ ~UseApiToken(settings)
                                 => r.loginId # 0 /\ loginSucceeded)
    /\ [][\A p \in Procs :
            (task[p].pc = "close" /\ client = 0 /\ task'[p].pc # "close")
            => /\ task'[p].pc = "finish" /\ task'[p].res.type = "ok"
               /\ UNCHANGED <<client, is_closed, opened, auth_ticket,
                              csrf_token, logins>>]_vars

\* after a close, a request opened the second transport, logged in and sent
C9_Witness ==
    /\ closeCalled /\ opened = 2 /\ 1 \in is_closed
    /\ \E p \in Procs :
          /\ task[p].op = "get" /\ task[p].entry = 0 /\ task[p].openedHere
          /\ task[p].lclient = 2
          /\ task[p].pc = "send_wait" /\ task[p].loginId # 0

\* C10: without a token and with the username or the password missing,
\* every request fails with the configuration error, no login exchange is
\* sent and no request is sent upstream.
C10_ConfigErrorIsSticky ==
    (~UseApiToken(settings) /\ MissingCredentials(settings))
    => /\ logins = 0
       /\ \A p \in Procs :
             /\ task[p].sent = <<>>
             /\ task[p].pc = "ret"
                  => /\ task[p].ret.type = "ProxmoxAuthError"
                     /\ task[p].ret.detail = "config"

\* C11: a login exchange that succeeds stores the returned ticket and
\* anti-forgery token; one that fails (non-2xx answer, transport failure,
\* malformed body) raises the authentication error and leaves the stored
\* ticket and anti-forgery token as they were.
C11_FailedLoginKeepsSession ==
    [][\A p \in Procs :
          task[p].pc = "login_wait" /\ task'[p].pc # "login_wait"
          => IF task'[p].pc = "ret"
             THEN /\ task'[p].ret.type = "ProxmoxAuthError"
                  /\ UNCHANGED <<auth_ticket, csrf_token>>
             ELSE /\ auth_ticket' = task[p].loginId
                  /\ csrf_token' = task[p].loginId]_vars


\* the lookup of a guest tool ends with this step of caller p
LookupEnds(p) ==
    /\ task[p].tool \in GuestTools /\ task[p].pc = "finish"
    /\ task[p].tstage \in {"lookup_vms", "lookup_cts"}
    /\ task[p].res.type = "ok"
    /\ \/ task'[p].pc = "tool_done"
       \/ task'[p].tstage \notin {"lookup_vms", "lookup_cts"}

\* C12: a guest tool called without a node ends its lookup only after both
\* listings were fetched, VMs then containers; it then uses the node of the
\* first entry of the VM listing followed by the container listing whose id
\* matches, and when none matches it returns a not-found value that carries
\* no failure text and makes no per-guest fetch.
C12_LookupScansVmsThenContainers ==
    [][\A p \in Procs :
          LookupEnds(p)
          => /\ task[p].tstage = "lookup_cts"
             /\ task[p].tcalls = <<"get_all_vms", "get_all_containers">>
             /\ LET guests == task[p].all_vms \o task[p].res.items
                    vmid == task[p].vmid
                IN IF \E i \in 1..Len(guests) : guests[i].vmid = vmid
                   THEN /\ task'[p].pc # "tool_done"
                        /\ \E i \in 1..Len(guests) :
                              /\ guests[i].vmid = vmid
                              /\ \A j \in 1..(i - 1) : guests[j].vmid # vmid
                              /\ task'[p].node = guests[i].node
                   ELSE /\ task'[p].pc = "tool_done"
                        /\ task'[p].tres.kind = "error"
                        /\ task'[p].tres.cause = NoRet
                        /\ task'[p].tcalls = task[p].tcalls]_vars

VmCalls == {"get_vm_config", "get_vm_status"}

ContainerCalls == {"get_container_config", "get_container_status"}

\* the positions in r.tcalls of the calls named in names
CallsOf(r, names) == {i \in 1..Len(r.tcalls) : r.tcalls[i] \in names}

\* every answered call of r at the positions idx succeeded
AllOk(r, idx) == \A i \in idx : i <= Len(r.touts) => r.touts[i] = "ok"

\* C13: in get_vm_info and get_vm_status every VM endpoint is requested
\* before any container endpoint, and a container endpoint only after a
\* VM-path fetch of the call failed; the call reports type qemu exactly when
\* all its VM-path fetches succeeded and lxc exactly when one of them failed
\* and all its container-path fetches succeeded.
C13_ProbeOrderAndType ==
    \A p \in Procs :
       LET r == task[p]
           vm == CallsOf(r, VmCalls)
           ct == CallsOf(r, ContainerCalls)
           reports(t) == r.tres.kind = "value" /\ r.tres.val.type = t
       IN r.tool \in {"get_vm_info", "get_vm_status"}
          => /\ \A i \in ct : \A j \in vm : j < i
             /\ ct # {} => \E j \in vm : j <= Len(r.touts) /\ r.touts[j] # "ok"
             /\ r.pc = "tool_done" /\ vm # {}
                => /\ reports("qemu") <=> AllOk(r, vm)
                   /\ reports("lxc") <=> ~AllOk(r, vm) /\ AllOk(r, ct)

C13_Witness ==
    /\ task[1].pc = "tool_done" /\ task[1].tool = "get_vm_info"
    /\ task[1].tres.kind = "value" /\ task[1].tres.val.type = "lxc"
    /\ task[1].tcalls = <<"get_vm_config", "get_vm_status",
                          "get_container_config", "get_container_status">>

\* C14: when the VM path and the container path both fail in get_vm_info or
\* get_vm_status, the failure named in the returned error value is the
\* failure of the VM path.
C14_BothFailReportsVmFailure ==
    \A p \in Procs :
       LET r == task[p]
       IN /\ r.tool \in {"get_vm_info", "get_vm_status"}
          /\ r.pc = "tool_done"
          /\ r.vmExc # NoRet
          /\ ~AllOk(r, CallsOf(r, ContainerCalls))
          => r.tres.kind = "error" /\ r.tres.cause = r.vmExc

\* C15: no exception escapes a tool invocation: a tool whose last awaited
\* client call failed ends by returning a value with an error member.
C15_NoExceptionEscapesTool ==
    \A p \in Procs :
       LET r == task[p]
       IN r.pc = "tool_done" /\ r.touts # <<>> /\ r.touts[Len(r.touts)] # "ok"
          => r.tres.kind = "error"

\* C16: an invocation of get_vm_metrics with a timeframe outside hour, day,
\* week, month, year is, in the step that starts it, already returned with
\* the invalid-timeframe error value: it calls no client operation, sends
\* nothing, opens no connection and starts no login exchange, with or
\* without a node.
C16_InvalidTimeframeNoUpstreamCall ==
    [][\A p \in Procs :
          LET n == task'[p]
          IN n.tool = "get_vm_metrics"
             /\ n.timeframe \notin {"hour", "day", "week", "month", "year"}
             => /\ n.pc = "tool_done"
                /\ n.tres.kind = "error" /\ n.tres.error = "Invalid timeframe"
                /\ n.tcalls = <<>> /\ n.sent = <<>>
                /\ UNCHANGED <<client, is_closed, opened, logins,
                               auth_ticket, csrf_token>>]_vars

C16_Witness ==
    /\ task[1].pc = "tool_done" /\ task[1].tool = "get_vm_metrics"
    /\ task[1].timeframe = "decade" /\ task[1].node = None
    /\ task[1].tres.error = "Invalid timeframe"

\* C17: the filesystem tool returns a failure value (agent not available or
\* generic) only for a failed upstream fetch of the guest's filesystem
\* data; once the guest's node is known and upstream does not fail, it
\* returns data and not an error.
C17_FilesystemFailureIsUpstreamFailure ==
    \A p \in Procs :
       LET r == task[p]
       IN /\ r.tool = "get_vm_filesystem_info" /\ r.pc = "tool_done"
          /\ r.tres.kind = "error" /\ r.tres.cause # NoRet
          => \E i \in 1..Len(r.touts) :
                /\ r.tcalls[i] = "get_vm_agent_fsinfo"
                /\ r.touts[i] = r.tres.cause.type
                /\ r.touts[i] # "AttributeError"

RECURSIVE Without(_, _)
\* seq with every element equal to x left out
Without(seq, x) ==
    IF seq = <<>> THEN <<>>
    ELSE IF Head(seq) = x THEN Without(Tail(seq), x)
    ELSE <<Head(seq)>> \o Without(Tail(seq), x)

NamesOf(seq) == [i \in 1..Len(seq) |-> seq[i].name]

\* C18: the entries returned by list_vm_snapshots are, by name and in
\* order, the upstream snapshots with every one named "current" left out,
\* wherever it stands in the upstream list.
C18_SnapshotsWithoutCurrent ==
    \A p \in Procs :
       LET r == task[p]
           upstream == IF r.res.null THEN <<>> ELSE r.res.items
       IN /\ r.tool = "list_vm_snapshots" /\ r.pc = "tool_done"
          /\ r.tstage = "snapshots" /\ r.res.type = "ok"
          => /\ r.tres.kind = "value"
             /\ NamesOf(r.tres.val) = Without(NamesOf(upstream), "current")
             /\ NamesOf(upstream) = <<"current", "backup1", "backup2">>
                => NamesOf(r.tres.val) = <<"backup1", "backup2">>

C18_Witness ==
    /\ task[1].tool = "list_vm_snapshots" /\ task[1].pc = "tool_done"
    /\ task[1].tstage = "snapshots" /\ task[1].res.type = "ok"
    /\ ~task[1].res.null
    /\ NamesOf(task[1].res.items) = <<"backup1", "current", "backup2">>
    /\ NamesOf(task[1].tres.val) = <<"backup1", "backup2">>

\* the first characters of s are those of pre
HasPrefix(s, pre) ==
    Len(s) >= Len(pre) /\ \A i \in 1..Len(pre) : s[i] = pre[i]

\* s holds the word "volume" in any mix of upper and lower case
HoldsVolume(s) ==
    LET letters == <<{"v", "V"}, {"o", "O"}, {"l", "L"}, {"u", "U"},
                     {"m", "M"}, {"e", "E"}>>
    IN \E k \in 0..(Len(s) - 6) : \A i \in 1..6 : s[k + i] \in letters[i]

NonEmpty(v) == (v.t = "str" /\ Len(v.s) > 0) \/ (v.t = "int" /\ v.n # 0)

\* the keys of cfg that have to yield a network entry
NetworkKeys(cfg) ==
    {cfg[i][1] : i \in {j \in 1..Len(cfg) :
        HasPrefix(cfg[j][1], <<"n", "e", "t">>) /\ NonEmpty(cfg[j][2])}}

\* the keys of cfg that have to yield a disk entry
DiskKeys(cfg) ==
    {cfg[i][1] : i \in {j \in 1..Len(cfg) :
        /\ \E pre \in {<<"s", "c", "s", "i">>, <<"v", "i", "r", "t", "i", "o">>,
                        <<"i", "d", "e">>, <<"s", "a", "t", "a">>,
                        <<"r", "o", "o", "t", "f", "s">>, <<"m", "p">>} :
              HasPrefix(cfg[j][1], pre)
        /\ cfg[j][2].t = "str" /\ Len(cfg[j][2].s) > 0
        /\ (\E k \in 1..Len(cfg[j][2].s) : cfg[j][2].s[k] = ":")
           \/ HoldsVolume(cfg[j][2].s)}}

\* C19: the networks of get_vm_info are one entry for exactly the keys that
\* begin with net and have a non-empty value, the disks one entry for
\* exactly the keys that begin with a disk prefix and whose value is a
\* non-empty string holding ':' or 'volume' in any case; each entry carries
\* the value of its key. {net0, scsi0, cores} gives the entries net0 and
\* scsi0, and mp0 with an empty value gives no disk.
C19_HardwareParsing ==
    \A p \in Procs :
       LET r == task[p]
           cfg == r.config.items
           nets == r.tres.val.networks
           disks == r.tres.val.disks
       IN /\ r.tool = "get_vm_info" /\ r.pc = "tool_done"
          /\ r.tres.kind = "value"
          => /\ {nets[i].interface : i \in 1..Len(nets)} = NetworkKeys(cfg)
             /\ Len(nets) = Cardinality(NetworkKeys(cfg))
             /\ {disks[i].device : i \in 1..Len(disks)} = DiskKeys(cfg)
             /\ Len(disks) = Cardinality(DiskKeys(cfg))
             /\ \A i \in 1..Len(nets) :
                   <<nets[i].interface, nets[i].config>>
                      \in {cfg[j] : j \in 1..Len(cfg)}
             /\ \A i \in 1..Len(disks) :
                   <<disks[i].device, disks[i].config>>
                      \in {cfg[j] : j \in 1..Len(cfg)}
             /\ (Len(cfg) >= 3 /\ SubSeq(cfg, 1, 3) =
                    <<<<K_net0, V_nic>>, <<K_scsi0, V_disk>>,
                      <<K_cores, Num(2)>>>>
                 /\ \A j \in 4..Len(cfg) : cfg[j] = <<K_mp0, V_empty>>)
                => /\ nets = <<[interface |-> K_net0, config |-> V_nic]>>
                   /\ disks = <<[device |-> K_scsi0, config |-> V_disk]>>

C19_Witness ==
    /\ task[1].tool = "get_vm_info" /\ task[1].pc = "tool_done"
    /\ task[1].tres.kind = "value"
    /\ task[1].config.items = <<<<K_net0, V_nic>>, <<K_scsi0, V_disk>>,
                                <<K_cores, Num(2)>>, <<K_mp0, V_empty>>>>
    /\ Len(task[1].tres.val.networks) = 1
    /\ Len(task[1].tres.val.disks) = 1

RECURSIVE TotalUpTo(_, _, _)
\* the sum of member k over the first n node records, a missing member
\* counting 0
TotalUpTo(nodes, k, n) ==
    IF n = 0 THEN 0
    ELSE TotalUpTo(nodes, k, n - 1)
         + (IF k \in DOMAIN nodes[n] THEN nodes[n][k] ELSE 0)

\* pct, in hundredths of a percent, is used / max(total, 1) * 100 rounded to
\* the nearest hundredth
IsPercentOf(pct, used, total) ==
    LET d == IF total >= 1 THEN total ELSE 1
        e == pct.hundredths * d - used * 10000
    IN ~pct.raised /\ 2 * e <= d /\ 2 * e >= -d

\* C20: the totals of get_cluster_status are the sums over the nodes of the
\* node listing, each percentage is used / max(total, 1) * 100 to two
\* decimals, the division never fails, totals of 0 give 0 percent, and
\* [{maxmem:100, mem:50}, {maxmem:0, mem:0}] gives 50 percent of memory.
C20_ClusterTotals ==
    \A p \in Procs :
       LET r == task[p]
           nodes == r.res.items
           n == Len(nodes)
           t == r.tres.val
       IN /\ r.tool = "get_cluster_status" /\ r.pc = "tool_done"
          /\ r.tstage = "cluster_nodes" /\ r.res.type = "ok"
          => /\ r.tres.kind = "value"
             /\ t.cpu_cores = TotalUpTo(nodes, "maxcpu", n)
             /\ t.memory_total_bytes = TotalUpTo(nodes, "maxmem", n)
             /\ t.memory_used_bytes = TotalUpTo(nodes, "mem", n)
             /\ t.disk_total_bytes = TotalUpTo(nodes, "maxdisk", n)
             /\ t.disk_used_bytes = TotalUpTo(nodes, "disk", n)
             /\ IsPercentOf(t.memory_usage_percent, t.memory_used_bytes,
                            t.memory_total_bytes)
             /\ IsPercentOf(t.disk_usage_percent, t.disk_used_bytes,
                            t.disk_total_bytes)
             /\ t.memory_total_bytes = 0
                => t.memory_usage_percent.hundredths = 0
             /\ t.disk_total_bytes = 0 => t.disk_usage_percent.hundredths = 0
             /\ (n = 2 /\ \A i \in 1..2 : "mem" \in DOMAIN nodes[i]
                         /\ "maxmem" \in DOMAIN nodes[i]
                 /\ <<nodes[1].maxmem, nodes[1].mem>> = <<100, 50>>
                 /\ <<nodes[2].maxmem, nodes[2].mem>> = <<0, 0>>)
                => t.memory_usage_percent.hundredths = 5000

C20_Witness ==
    /\ task[1].tool = "get_cluster_status" /\ task[1].pc = "tool_done"
    /\ task[1].tstage = "cluster_nodes" /\ task[1].res.type = "ok"
    /\ task[1].res.items = <<NodeA, NodeB>>
    /\ task[1].tres.kind = "value"
    /\ task[1].tres.val.memory_usage_percent.hundredths = 5000
    /\ task[1].tres.val.disk_usage_percent.hundredths = 2500

OutputKeys == {"vmid", "name", "status", "node", "type", "cpus",
               "memory_bytes", "disk_bytes", "uptime_seconds"}

\* the value of member k of the raw record g, or d when g has no member k
Upstream(g, k, d) == IF k \in DOMAIN g THEN g[k] ELSE d

\* C21 (as claimed): list_vms returns one record per raw guest record, each
\* with all of the keys vmid, name, status, node, type, cpus, memory_bytes,
\* disk_bytes, uptime_seconds; the name is the upstream name, or "VM-<id>"
\* when upstream has none, and every numeric member absent upstream is 0.
C21_AbsentNumericIsZero ==
    \A p \in Procs :
       LET r == task[p]
           raw == r.all_vms \o r.res.items
           out == r.tres.val
       IN /\ r.tool = "list_vms" /\ r.pc = "tool_done"
          /\ r.tres.kind = "value"
          => /\ Len(out) = Len(raw)
             /\ \A i \in 1..Len(out) :
                   /\ DOMAIN out[i] = OutputKeys
                   /\ IF "name" \in DOMAIN raw[i]
                      THEN out[i].name = raw[i].name
                      ELSE out[i].name = <<"VM-", raw[i].vmid>>
                   /\ out[i].memory_bytes = Upstream(raw[i], "maxmem", 0)
                   /\ out[i].disk_bytes = Upstream(raw[i], "maxdisk", 0)
                   /\ out[i].uptime_seconds = Upstream(raw[i], "uptime", 0)
                   /\ out[i].cpus = Upstream(raw[i], "cpus", 0)

\* C21 (amended): as claimed, except that cpus, when upstream has no cpus
\* member, is the upstream maxcpu and 0 only when that is absent too.
C21_ListVmsNormalises ==
    \A p \in Procs :
       LET r == task[p]
           raw == r.all_vms \o r.res.items
           out == r.tres.val
       IN /\ r.tool = "list_vms" /\ r.pc = "tool_done"
          /\ r.tres.kind = "value"
          => /\ Len(out) = Len(raw)
             /\ \A i \in 1..Len(out) :
                   /\ DOMAIN out[i] = OutputKeys
                   /\ out[i].vmid = raw[i].vmid
                   /\ IF "name" \in DOMAIN raw[i]
                      THEN out[i].name = raw[i].name
                      ELSE out[i].name = <<"VM-", raw[i].vmid>>
                   /\ out[i].memory_bytes = Upstream(raw[i], "maxmem", 0)
                   /\ out[i].disk_bytes = Upstream(raw[i], "maxdisk", 0)
                   /\ out[i].uptime_seconds = Upstream(raw[i], "uptime", 0)
                   /\ out[i].cpus =
                         Upstream(raw[i], "cpus", Upstream(raw[i], "maxcpu", 0))

C21_Witness ==
    /\ task[1].tool = "list_vms" /\ task[1].pc = "tool_done"
    /\ task[1].tres.kind = "value"
    /\ \E i \in 1..Len(task[1].tres.val) :
          /\ task[1].tres.val[i].name = <<"VM-", 101>>
          /\ task[1].tres.val[i].memory_bytes = 0
    /\ \E i \in 1..Len(task[1].tres.val) :
          /\ task[1].tres.val[i].vmid = 200
          /\ task[1].tres.val[i].cpus = 4

\* C22: every request a caller has sent upstream is a GET, and the only
\* other exchange, the login, is a POST to the login endpoint.
C22_ReadOnlyUpstream ==
    \A p \in Procs :
       /\ \A i \in 1..Len(task[p].sent) : task[p].sent[i].method = "GET"
       /\ task[p].pc \in {"first_send", "send_wait", "resend", "resend_wait"}
          => task[p].method = "GET"
       /\ task[p].loginReq # NoRequest
          => /\ task[p].loginReq.method = "POST"
             /\ task[p].loginReq.path = <<"access", "ticket">>
       /\ task[p].pc = "login_wait" => task[p].loginReq # NoRequest

C22_Witness ==
    /\ task[1].tool = "get_vm_info" /\ task[1].tstage = "vm_config"
    /\ task[1].loginReq = LoginRequest
    /\ Len(task[1].sent) = 2
    /\ task[1].sent[2].path[5] = "config"

\* C23 (as claimed): get_vm_metrics returns one data point per upstream
\* sample, the i-th point made from the i-th sample, and data_points_count
\* is the number of upstream samples.
C23_CountIsNumberOfSamples ==
    \A p \in Procs :
       LET r == task[p]
           samples == IF r.res.null THEN <<>> ELSE r.res.items
           out == r.tres.val
       IN /\ r.tool = "get_vm_metrics" /\ r.pc = "tool_done"
          /\ r.tstage = "rrd" /\ r.res.type = "ok"
          => /\ r.tres.kind = "value"
             /\ "data_points_count" \in DOMAIN out
             /\ out.data_points_count = Len(samples)
             /\ Len(out.data_points) = Len(samples)
             /\ \A i \in 1..Len(samples) :
                   out.data_points[i].timestamp = samples[i].time

\* C23 (amended): as claimed for one upstream sample or more; with no
\* upstream sample the value has an empty data_points, a message and no
\* data_points_count.
C23_MetricsKeepUpstreamOrder ==
    \A p \in Procs :
       LET r == task[p]
           samples == IF r.res.null THEN <<>> ELSE r.res.items
           out == r.tres.val
       IN /\ r.tool = "get_vm_metrics" /\ r.pc = "tool_done"
          /\ r.tstage = "rrd" /\ r.res.type = "ok"
          => /\ r.tres.kind = "value"
             /\ Len(out.data_points) = Len(samples)
             /\ IF samples = <<>>
                THEN DOMAIN out = {"message", "data_points"}
                ELSE out.data_points_count = Len(samples)
             /\ \A i \in 1..Len(samples) :
                   /\ out.data_points[i].timestamp = samples[i].time
                   /\ out.data_points[i].memory_bytes =
                         (IF "mem" \in DOMAIN samples[i] THEN samples[i].mem
                          ELSE 0)

C23_Witness ==
    /\ task[1].tool = "get_vm_metrics" /\ task[1].pc = "tool_done"
    /\ task[1].tstage = "rrd" /\ task[1].res.type = "ok"
    /\ Len(task[1].res.items) = 2
    /\ task[1].res.items[1].time = 2 /\ task[1].res.items[2].time = 1
    /\ task[1].tres.val.data_points[1].timestamp = 2
    /\ task[1].tres.val.data_points[2].timestamp = 1

\* C24: a get_all_vms call whose per-node fetches all succeeded returns the
\* VM lists of the nodes concatenated in node-listing order, each entry as
\* upstream gave it plus the node it was fetched from; the call requested
\* the node list once and then the VM list of each node once, in order.
C24_GetAllVmsConcatenates ==
    \A p \in Procs :
       LET r == task[p]
       IN /\ r.op = "vms" /\ r.stage = "guests" /\ r.pc = "finish"
          /\ Len(r.fetched) = Len(r.nodes)
          /\ \A i \in 1..Len(r.fetched) : r.fetched[i]
          => /\ r.res.type = "ok"
             /\ r.res.items = ExpectedGuests("vms", r.nodes, r.fetched)
             /\ \A i \in 1..Len(r.res.items) :
                   \E n \in 1..Len(r.nodes) :
                      /\ r.res.items[i].node = r.nodes[n].node
                      /\ \E j \in 1..Len(QemuOf(r.nodes[n].node).items) :
                            QemuOf(r.nodes[n].node).items[j].vmid
                               = r.res.items[i].vmid
             /\ r.gets = <<<<"nodes">>>> \o
                    [i \in 1..Len(r.nodes) |->
                        <<"nodes", r.nodes[i].node, "qemu">>]

C24_Witness ==
    /\ task[1].op = "vms" /\ task[1].stage = "guests"
    /\ task[1].pc = "finish" /\ task[1].tool = "none"
    /\ task[1].nodes = <<NodeA, NodeC>>
    /\ task[1].fetched = <<TRUE, TRUE>>
    /\ Len(task[1].res.items) = 3
    /\ task[1].res.items[3].node = "pve2"

\* C25: in every reachable state of concurrent callers the stored ticket
\* and the stored anti-forgery token, once both are set, were stored by the
\* same login exchange, and every request sent with both carries a ticket
\* and an anti-forgery token of the same login exchange.
C25_SessionSwapAtomic ==
    /\ auth_ticket # 0 /\ csrf_token # 0 => auth_ticket = csrf_token
    /\ \A p \in Procs : \A i \in 1..Len(task[p].sent) :
          LET h == task[p].sent[i].headers
          IN {"Cookie", "CSRFPreventionToken"} \subseteq DOMAIN h
             => h["Cookie"][2] = h["CSRFPreventionToken"][1]

\* C26: when every upstream await ends, every operation that was started
\* ends (returns or raises) and every _request call ends; a _request call
\* sends its request at most twice and makes at most two login exchanges,
\* and a get_all_vms / get_all_containers call over N nodes makes at most
\* 2 * (N + 1) sends other than logins.
C26_NoOperationBlocks ==
    /\ [](\A p \in Procs :
            LET r == task[p]
            IN /\ Len(r.sent) <= 2
               /\ r.exchanges <= 2
               /\ r.op = "get" => r.sends <= 2
               /\ r.op \in {"vms", "cts"}
                    => r.sends <= 2 * (Len(r.nodes) + 1))
    /\ \A p \in Procs :
          /\ (task[p].pc = "get_client") ~> (task[p].pc = "ret")
          /\ (task[p].pc \notin {"idle", "finish"}) ~> (task[p].pc = "finish")

C26_Witness ==
    /\ task[1].op = "vms" /\ task[1].pc = "finish"
    /\ task[1].res.type = "ok"
    /\ Len(task[1].nodes) = 2
    /\ task[1].sends = 2 * (Len(task[1].nodes) + 1)
    /\ task[1].exchanges = 1

\* a static token credential is configured: both the id and the secret
TokenConfigured(st) ==
    /\ st.proxmox_api_token_id \notin {None, ""}
    /\ st.proxmox_api_token_secret \notin {None, ""}

\* C27: with a static token configured, alone or next to a username and
\* password, over every sequence of requests, 401 answers and closes no
\* login exchange is made and the stored ticket and anti-forgery token stay
\* unset; a 401 answer to the first send leads to one no-op _authenticate
\* and exactly one re-send, which carries the same token header.
C27_TokenAuthIsNoOp ==
    TokenConfigured(settings)
    => /\ logins = 0 /\ auth_ticket = 0 /\ csrf_token = 0
       /\ \A p \in Procs :
             LET r == task[p] IN
             /\ r.exchanges = 0 /\ r.loginId = 0 /\ r.loginReq = NoRequest
             /\ r.pc # "login_wait"
             /\ (r.pc = "ret" /\ r.first = 401)
                  => /\ r.reauths = 1 /\ r.reauthOK /\ r.calls = 2
                     /\ r.headers = ("Authorization" :> TokenHeader(settings))
                     /\ Len(r.sent) = 2 /\ r.sent[2] = r.sent[1]
             /\ \A i \in 1..Len(r.sent) :
                   r.sent[i].headers
                      = ("Authorization" :> TokenHeader(settings))
             /\ Len(r.sent) <= 2

\* token next to a username and password: a 401, then the re-send went out
C27_Witness ==
    /\ TokenConfigured(settings) /\ settings.proxmox_username = "root"
    /\ closeCalled /\ opened = 2
    /\ \E p \in Procs :
          /\ task[p].pc = "ret" /\ task[p].first = 401
          /\ Len(task[p].sent) = 2
          /\ task[p].sent[2] = task[p].sent[1]

\* the ids of the guests upstream lists on node n
IdsOn(kind, n) ==
    LET items == IF kind = "vms" THEN QemuOf(n).items ELSE LxcOf(n).items
    IN {items[j].vmid : j \in 1..Len(items)}

\* C28: in a result of list_vms the entries of the VM listing come first,
\* in their order, each with type "qemu", followed by the entries of the
\* container listing, each with type "lxc", whatever type upstream gave;
\* the result has as many entries as the two listings together, and each
\* entry is a guest upstream lists, as VM or as container, on its node.
C28_TypeTagsAndOrder ==
    \A p \in Procs :
       LET r == task[p]
           nv == Len(r.all_vms)
           out == r.tres.val
       IN /\ r.tool = "list_vms" /\ r.pc = "tool_done"
          /\ r.tres.kind = "value"
          => /\ Len(out) = nv + Len(r.res.items)
             /\ \A i \in 1..Len(out) :
                   IF i <= nv
                   THEN /\ out[i].type = "qemu"
                        /\ out[i].vmid = r.all_vms[i].vmid
                        /\ out[i].node = r.all_vms[i].node
                        /\ out[i].vmid \in IdsOn("vms", out[i].node)
                   ELSE /\ out[i].type = "lxc"
                        /\ out[i].vmid = r.res.items[i - nv].vmid
                        /\ out[i].node = r.res.items[i - nv].node
                        /\ out[i].vmid \in IdsOn("cts", out[i].node)

\* VMs with and without an upstream type, then a container
C28_Witness ==
    /\ task[1].tool = "list_vms" /\ task[1].pc = "tool_done"
    /\ task[1].tres.kind = "value"
    /\ Len(task[1].tres.val) = 3
    /\ task[1].all_vms[1].type = "upstream"
    /\ "type" \notin DOMAIN task[1].all_vms[2]
    /\ task[1].tres.val[2].type = "qemu"
    /\ task[1].tres.val[3].type = "lxc"
    /\ task[1].tres.val[3].vmid = 300
====
